---------------------------- MODULE Spec2Model ----------------------------
(***************************************************************************)
(* Tree-depth termination policy of evco (src/gp/gen.rs): the TreeGen      *)
(* struct, its four constructors, have_reached_a_leaf and the Rng          *)
(* delegation, together with the primitives of the rand crate they call    *)
(* (gen_range, gen, gen_weighted_bool) and a tree-builder that drives the   *)
(* policy node by node.                                                    *)
(*                                                                         *)
(* The random source is a stream of words.  Its state `rng` is the number  *)
(* of words consumed so far; the word a call reads is an input of the      *)
(* action (raw), so every outcome of the source is explored.               *)
(***************************************************************************)
EXTENDS Integers, Sequences, FiniteSets, TLC

\* ---------------------------------------------------------------- bounds
\* width of usize in bits (scaled down)
UsizeBits == 3
\* width of u32 in bits (scaled down; narrower than usize as on 64-bit targets)
U32Bits == 2
\* largest depth passed as min_depth, max_depth, current_depth
MaxDepth == 4
\* words the random stream can supply before it is cut off
MaxWords == 3
\* longest buffer handed to fill_bytes
MaxFill == 5

UsizeModulus == 2 ^ UsizeBits
UsizeMax == UsizeModulus - 1
U32Modulus == 2 ^ U32Bits

Min(a, b) == IF a < b THEN a ELSE b

\* the depths a caller passes: the small ones and the largest usize
Depth == (0 .. Min(MaxDepth, UsizeMax)) \cup {UsizeMax}
\* the value the random source yields next
Raw == 0 .. Min(MaxDepth, UsizeMax)

VARIABLES
    overflow_checks, \* build profile: TRUE = arithmetic overflow panics (debug)
    rng,             \* state of the borrowed random source: words consumed
    status,          \* "none": no TreeGen, "live": a TreeGen exists, "panicked"
    mode,            \* TreeGen.mode
    min_depth,       \* TreeGen.min_depth
    max_depth,       \* TreeGen.max_depth
    call,            \* the last operation, its arguments and its result
    twin_rng,        \* random source of the companion Full(min_depth, d) policy
    twin_ret,        \* last answer of the companion Full(min_depth, d) policy
    build            \* the tree-builder: root depth, current depth, last leaf

vars == <<overflow_checks, rng, status, mode, min_depth, max_depth, call,
          twin_rng, twin_ret, build>>

\* ------------------------------------------------------ integer arithmetic
\* usize `a + b`: panics under overflow checks, wraps otherwise
usize_add(a, b, checks) ==
    [panic |-> checks /\ a + b > UsizeMax,
     value |-> (a + b) % UsizeModulus]

\* usize `a - b`: panics under overflow checks, wraps otherwise
usize_sub(a, b, checks) ==
    [panic |-> checks /\ a < b,
     value |-> (a - b + UsizeModulus) % UsizeModulus]

\* `n as u32`
AsU32(n) == n % U32Modulus

\* ---------------------------------------------------------- the rand crate
NoSample == -1
\* Rng::gen_range(low, high): asserts low < high, then a value of [low, high)
gen_range(low, high, raw) ==
    [panic |-> ~(low < high),
     value |-> IF low < high THEN low + (raw % (high - low)) ELSE low,
     words |-> IF low < high THEN 1 ELSE 0]

\* Rng::gen::<bool>()
gen_bool(raw) == [value |-> raw % 2 = 1, words |-> 1]

\* Rng::gen_weighted_bool(n): n <= 1 || self.gen_range(0, n) == 0
\* (sample: the value gen_range gave, NoSample when it was not called)
gen_weighted_bool(n, raw) ==
    IF n <= 1
    THEN [value |-> TRUE, words |-> 0, sample |-> NoSample]
    ELSE [value |-> gen_range(0, n, raw).value = 0,
          words |-> gen_range(0, n, raw).words,
          sample |-> gen_range(0, n, raw).value]

\* ------------------------------------------------------------ TreeGenMode
Perfect(chosen_depth) == [tag |-> "Perfect", chosen_depth |-> chosen_depth]
Full == [tag |-> "Full"]
FullRanged(chosen_depth) == [tag |-> "FullRanged", chosen_depth |-> chosen_depth]
NoMode == [tag |-> "None"]

\* a TreeGen value (the rng field is the variable rng)
TreeGen(m, lo, hi) == [mode |-> m, min_depth |-> lo, max_depth |-> hi]

\* result of a constructor: a panic, or the TreeGen and the words it consumed
Built(g, w) == [panic |-> FALSE, gen |-> g, words |-> w]
Panicked(w) == [panic |-> TRUE, gen |-> TreeGen(NoMode, 0, 0), words |-> w]

\* ------------------------------------------------------------ constructors
\* perfect drawing chosen_depth from [0, max_depth]
perfect_from_zero(lo, hi, raw, checks) ==
    LET high == usize_add(hi, 1, checks)
        chosen_depth == gen_range(0, high.value, raw)
    IN  IF high.panic \/ chosen_depth.panic
        THEN Panicked(0)
        ELSE Built(TreeGen(Perfect(chosen_depth.value), lo, hi), chosen_depth.words)

perfect(lo, hi, raw, checks) ==
    LET high == usize_add(hi, 1, checks)
        chosen_depth == gen_range(lo, high.value, raw)
    IN  IF high.panic \/ chosen_depth.panic
        THEN Panicked(0)
        ELSE Built(TreeGen(Perfect(chosen_depth.value), lo, hi), chosen_depth.words)

full(lo, hi, checks) ==
    Built(TreeGen(Full, lo, hi), 0)

full_ranged(lo, hi, raw, checks) ==
    LET high == usize_add(hi, 1, checks)
        chosen_depth == gen_range(lo, high.value, raw)
    IN  IF high.panic \/ chosen_depth.panic
        THEN Panicked(0)
        ELSE Built(TreeGen(FullRanged(chosen_depth.value), lo, hi), chosen_depth.words)

\* half_and_half with the two branches exchanged
half_and_half_swapped(lo, hi, flip, raw, checks) ==
    LET coin == gen_bool(flip)
        inner == IF coin.value
                 THEN full_ranged(lo, hi, raw, checks)
                 ELSE perfect(lo, hi, raw, checks)
    IN  [inner EXCEPT !.words = coin.words + inner.words]

\* the coin is flipped first; a panic of the chosen constructor comes after it
half_and_half(lo, hi, flip, raw, checks) ==
    LET coin == gen_bool(flip)
        inner == IF coin.value
                 THEN perfect(lo, hi, raw, checks)
                 ELSE full_ranged(lo, hi, raw, checks)
    IN  [inner EXCEPT !.words = coin.words + inner.words]

\* --------------------------------------------------- the termination query
\* result of have_reached_a_leaf: a panic, or the answer, the words consumed
\* and the value gen_range gave
Answer(v, w, s) == [panic |-> FALSE, value |-> v, words |-> w, sample |-> s]
Abort == [panic |-> TRUE, value |-> FALSE, words |-> 0, sample |-> NoSample]

\* `a || (b && gen_weighted_bool(n))`, evaluated left to right
OrAndWeighted(a, b, n, raw) ==
    IF a THEN Answer(TRUE, 0, NoSample)
    ELSE IF b
         THEN Answer(gen_weighted_bool(n, raw).value,
                     gen_weighted_bool(n, raw).words,
                     gen_weighted_bool(n, raw).sample)
         ELSE Answer(FALSE, 0, NoSample)

\* the Perfect arm with >= for ==
leaf_Perfect_at_or_below(g, current_depth, raw, checks) ==
    Answer(current_depth >= g.mode.chosen_depth, 0, NoSample)

\* TreeGenMode::Perfect(chosen_depth) => ...
leaf_Perfect(g, current_depth, raw, checks) ==
    Answer(current_depth = g.mode.chosen_depth, 0, NoSample)

\* the Full arm without the test for max_depth
leaf_Full_no_ceiling(g, current_depth, raw, checks) ==
    LET depth_interval == usize_sub(g.max_depth, g.min_depth, checks)
    IN  IF depth_interval.panic THEN Abort
        ELSE OrAndWeighted(FALSE,
                           current_depth >= g.min_depth,
                           AsU32(depth_interval.value), raw)

\* the Full arm answering "not a leaf" beyond max_depth
leaf_Full_bounded(g, current_depth, raw, checks) ==
    LET depth_interval == usize_sub(g.max_depth, g.min_depth, checks)
    IN  IF depth_interval.panic THEN Abort
        ELSE OrAndWeighted(current_depth = g.max_depth,
                           current_depth >= g.min_depth /\ current_depth < g.max_depth,
                           AsU32(depth_interval.value), raw)

\* the Full arm without the test for min_depth
leaf_Full_no_floor(g, current_depth, raw, checks) ==
    LET depth_interval == usize_sub(g.max_depth, g.min_depth, checks)
    IN  IF depth_interval.panic THEN Abort
        ELSE OrAndWeighted(current_depth = g.max_depth,
                           TRUE,
                           AsU32(depth_interval.value), raw)

\* TreeGenMode::Full => { ... }
leaf_Full(g, current_depth, raw, checks) ==
    LET depth_interval == usize_sub(g.max_depth, g.min_depth, checks)
    IN  IF depth_interval.panic THEN Abort
        ELSE OrAndWeighted(current_depth = g.max_depth,
                           current_depth >= g.min_depth,
                           AsU32(depth_interval.value), raw)

\* the FullRanged arm with the ceiling test of the Full arm
leaf_FullRanged_max_ceiling(g, current_depth, raw, checks) ==
    LET depth_interval == usize_sub(g.mode.chosen_depth, g.min_depth, checks)
    IN  IF depth_interval.panic THEN Abort
        ELSE OrAndWeighted(current_depth = g.max_depth,
                           current_depth >= g.min_depth,
                           AsU32(depth_interval.value), raw)

\* the FullRanged arm with the interval of the Full arm
leaf_FullRanged_max_interval(g, current_depth, raw, checks) ==
    LET depth_interval == usize_sub(g.max_depth, g.min_depth, checks)
    IN  IF depth_interval.panic THEN Abort
        ELSE OrAndWeighted(current_depth = g.mode.chosen_depth,
                           current_depth >= g.min_depth,
                           AsU32(depth_interval.value), raw)

\* the FullRanged arm without the test for min_depth
leaf_FullRanged_no_floor(g, current_depth, raw, checks) ==
    LET depth_interval == usize_sub(g.mode.chosen_depth, g.min_depth, checks)
    IN  IF depth_interval.panic THEN Abort
        ELSE OrAndWeighted(current_depth = g.mode.chosen_depth,
                           TRUE,
                           AsU32(depth_interval.value), raw)

\* TreeGenMode::FullRanged(chosen_depth) => { ... }
leaf_FullRanged(g, current_depth, raw, checks) ==
    LET depth_interval == usize_sub(g.mode.chosen_depth, g.min_depth, checks)
    IN  IF depth_interval.panic THEN Abort
        ELSE OrAndWeighted(current_depth = g.mode.chosen_depth,
                           current_depth >= g.min_depth,
                           AsU32(depth_interval.value), raw)

have_reached_a_leaf(g, current_depth, raw, checks) ==
    CASE g.mode.tag = "Perfect" -> leaf_Perfect(g, current_depth, raw, checks)
      [] g.mode.tag = "Full" -> leaf_Full(g, current_depth, raw, checks)
      [] g.mode.tag = "FullRanged" -> leaf_FullRanged(g, current_depth, raw, checks)

\* ------------------------------------------------------------------ state
NoCall == [op |-> "none"]
NoLeaf == -1
NoBuild == [active |-> FALSE, root |-> 0, depth |-> 0, leaf |-> NoLeaf]
Self == TreeGen(mode, min_depth, max_depth)

\* the companion of FullRanged(d) with lower bound lo: Full with bounds (lo, d)
Twin == TreeGen(Full, min_depth, mode.chosen_depth)

Init ==
    /\ overflow_checks \in BOOLEAN
    /\ rng = 0
    /\ status = "none"
    /\ mode = NoMode
    /\ min_depth = 0
    /\ max_depth = 0
    /\ call = NoCall
    /\ twin_rng = 0
    /\ twin_ret = FALSE
    /\ build = NoBuild

\* a constructor returned r for the call c
Construct(r, c) ==
    /\ status = "none"
    /\ rng + r.words <= MaxWords
    /\ rng' = rng + r.words
    /\ status' = IF r.panic THEN "panicked" ELSE "live"
    /\ mode' = r.gen.mode
    /\ min_depth' = r.gen.min_depth
    /\ max_depth' = r.gen.max_depth
    /\ call' = c
    /\ twin_rng' = rng + r.words
    /\ twin_ret' = FALSE
    /\ build' = NoBuild
    /\ UNCHANGED overflow_checks

CallPerfect ==
    \E lo \in Depth, hi \in Depth, raw \in Raw :
        Construct(perfect(lo, hi, raw, overflow_checks),
                  [op |-> "perfect", min |-> lo, max |-> hi, rng_before |-> rng])

CallFull ==
    \E lo \in Depth, hi \in Depth :
        Construct(full(lo, hi, overflow_checks),
                  [op |-> "full", min |-> lo, max |-> hi, rng_before |-> rng])

CallFullRanged ==
    \E lo \in Depth, hi \in Depth, raw \in Raw :
        Construct(full_ranged(lo, hi, raw, overflow_checks),
                  [op |-> "full_ranged", min |-> lo, max |-> hi,
                   rng_before |-> rng])

CallHalfAndHalf ==
    \E lo \in Depth, hi \in Depth, flip \in Raw, raw \in Raw :
        Construct(half_and_half(lo, hi, flip, raw, overflow_checks),
                  [op |-> "half_and_half", min |-> lo, max |-> hi,
                   flip |-> gen_bool(flip).value, raw |-> raw, rng_before |-> rng])

\* any caller asks have_reached_a_leaf(current_depth), the source yielding raw;
\* the companion Full policy is asked the same question on the same stream
CallHaveReachedALeaf ==
    \E current_depth \in Depth, raw \in Raw :
        LET r == have_reached_a_leaf(Self, current_depth, raw, overflow_checks)
            t == IF mode.tag = "FullRanged"
                 THEN have_reached_a_leaf(Twin, current_depth, raw, overflow_checks)
                 ELSE r
        IN  /\ status = "live"
            /\ ~build.active
            /\ rng + r.words <= MaxWords
            /\ rng' = rng + r.words
            /\ status' = IF r.panic THEN "panicked" ELSE "live"
            /\ call' = [op |-> "is_leaf", depth |-> current_depth,
                        ret |-> r.value, sample |-> r.sample, rng_before |-> rng]
            /\ twin_rng' = twin_rng + t.words
            /\ twin_ret' = t.value
            /\ UNCHANGED <<overflow_checks, mode, min_depth, max_depth, build>>

\* ------------------------------------------------------ Rng delegation
\* a delegated call that reads `words` words of the underlying source
Delegate(name, words) ==
    /\ status = "live"
    /\ rng + words <= MaxWords
    /\ rng' = rng + words
    /\ call' = [op |-> name, rng_before |-> rng]
    /\ twin_rng' = twin_rng + words
    /\ UNCHANGED <<overflow_checks, status, mode, min_depth, max_depth,
                   twin_ret, build>>

next_u32 == Delegate("next_u32", 1)

next_u64 == Delegate("next_u64", 2)

fill_bytes == \E len \in 0 .. MaxFill : Delegate("fill_bytes", (len + 3) \div 4)

\* -------------------------------------------------------- the tree-builder
\* the builder starts a tree at a root depth <= min_depth
BuildStart ==
    \E root \in Depth :
        /\ status = "live"
        /\ ~build.active
        /\ root <= min_depth
        /\ build' = [active |-> TRUE, root |-> root, depth |-> root, leaf |-> NoLeaf]
        /\ call' = [op |-> "build"]
        /\ UNCHANGED <<overflow_checks, rng, status, mode, min_depth, max_depth,
                       twin_rng, twin_ret>>

\* the builder asks about the node it is placing, and on true places a leaf
\* there: it then goes on with a pending sibling of the node or of one of its
\* ancestors (at a depth in root+1 .. depth), or the tree is complete
BuildLeaf ==
    \E raw \in Raw, next \in 0 .. UsizeMax, done \in BOOLEAN :
        LET r == have_reached_a_leaf(Self, build.depth, raw, overflow_checks)
        IN  /\ status = "live"
            /\ build.active
            /\ ~r.panic
            /\ r.value
            /\ done \/ (build.root < next /\ next <= build.depth)
            /\ done => next = build.depth
            /\ rng + r.words <= MaxWords
            /\ rng' = rng + r.words
            /\ twin_rng' = rng'
            /\ build' = [active |-> ~done, root |-> build.root, depth |-> next,
                         leaf |-> build.depth]
            /\ UNCHANGED <<overflow_checks, status, mode, min_depth, max_depth,
                           call, twin_ret>>

\* the builder asks about the node it is placing, and on false makes it an
\* internal node and descends to its first child
BuildInner ==
    \E raw \in Raw :
        LET r == have_reached_a_leaf(Self, build.depth, raw, overflow_checks)
        IN  /\ status = "live"
            /\ build.active
            /\ ~r.panic
            /\ ~r.value
            /\ build.depth < UsizeMax
            /\ rng + r.words <= MaxWords
            /\ rng' = rng + r.words
            /\ twin_rng' = rng'
            /\ build' = [build EXCEPT !.depth = build.depth + 1, !.leaf = NoLeaf]
            /\ UNCHANGED <<overflow_checks, status, mode, min_depth, max_depth,
                           call, twin_ret>>

\* the query panics under the builder's hands
BuildPanic ==
    LET r == have_reached_a_leaf(Self, build.depth, 0, overflow_checks)
    IN  /\ status = "live"
        /\ build.active
        /\ r.panic
        /\ status' = "panicked"
        /\ build' = [build EXCEPT !.active = FALSE, !.leaf = NoLeaf]
        /\ UNCHANGED <<overflow_checks, rng, mode, min_depth, max_depth,
                       call, twin_rng, twin_ret>>

\* the TreeGen goes out of scope; the source stays as it is
Drop ==
    /\ status = "live"
    /\ ~build.active
    /\ status' = "none"
    /\ mode' = NoMode
    /\ min_depth' = 0
    /\ max_depth' = 0
    /\ call' = NoCall
    /\ twin_rng' = rng
    /\ twin_ret' = FALSE
    /\ build' = NoBuild
    /\ UNCHANGED <<overflow_checks, rng>>

Constructors ==
    \/ CallPerfect
    \/ CallFull
    \/ CallFullRanged
    \/ CallHalfAndHalf

\* a TreeGen in the hands of arbitrary callers
Next ==
    \/ Constructors
    \/ CallHaveReachedALeaf
    \/ next_u32
    \/ next_u64
    \/ fill_bytes
    \/ Drop

Spec == Init /\ [][Next]_vars

\* a TreeGen in the hands of the tree-builder
NextBuild ==
    \/ Constructors
    \/ BuildStart
    \/ BuildLeaf
    \/ BuildInner
    \/ BuildPanic

SpecBuild == Init /\ [][NextBuild]_vars

\* ================================================================ claims
IsConstructor(op) == op \in {"perfect", "full", "full_ranged", "half_and_half"}
HasChosenDepth == mode.tag \in {"Perfect", "FullRanged"}
Ranged == mode.tag \in {"Full", "FullRanged"}
\* the depth at which the mode always places a leaf
Ceiling == IF HasChosenDepth THEN mode.chosen_depth ELSE max_depth
\* the interval of the Full and FullRanged modes
Interval == Ceiling - min_depth
\* a TreeGen built from valid bounds has just answered a query
Asked == status = "live" /\ call.op = "is_leaf" /\ min_depth <= max_depth
\* words the last call took from the random source
Drawn == rng - call.rng_before

\* C1: a constructor called with min_depth > max_depth fails at construction
\* time and returns no TreeGen.
C1_FailFast ==
    (IsConstructor(call.op) /\ call.min > call.max) => status = "panicked"

\* perfect, full_ranged and half_and_half do fail there (gen_range asserts
\* low < high); full is the constructor that does not.
C1_FailFastButFull ==
    (IsConstructor(call.op) /\ call.op # "full" /\ call.min > call.max)
        => status = "panicked"

C2_Range ==
    (status = "live" /\ HasChosenDepth)
        => (min_depth <= mode.chosen_depth /\ mode.chosen_depth <= max_depth)

C2_Frozen ==
    (status = "live" /\ status' = "live")
        => (mode' = mode /\ min_depth' = min_depth /\ max_depth' = max_depth)

\* C2: a TreeGen with a chosen_depth has min_depth <= chosen_depth <= max_depth,
\* and no query and no delegated random-number call changes its mode,
\* chosen_depth, min_depth or max_depth.
C2_ChosenDepthInRangeAndFrozen == [](C2_Range) /\ [][C2_Frozen]_vars

C2_Witness ==
    /\ status = "live"
    /\ mode.tag = "FullRanged"
    /\ min_depth < mode.chosen_depth
    /\ mode.chosen_depth < max_depth
    /\ call.op = "is_leaf"
    /\ rng > 1

\* C3: in Perfect mode the query answers true exactly when current_depth is
\* chosen_depth, and leaves the random source as it was.
C3_PerfectExact ==
    (status = "live" /\ call.op = "is_leaf" /\ mode.tag = "Perfect")
        => (call.ret = (call.depth = mode.chosen_depth) /\ rng = call.rng_before)

C3_Witness ==
    /\ status = "live"
    /\ call.op = "is_leaf"
    /\ mode.tag = "Perfect"
    /\ call.depth > mode.chosen_depth
    /\ ~call.ret
    /\ rng > 0

\* C4: in Full mode with min_depth <= max_depth the query answers true at
\* max_depth and false below min_depth, whatever the random source yields.
C4_FullCeilingAndFloor ==
    (Asked /\ mode.tag = "Full")
        => /\ call.depth = max_depth => call.ret
           /\ call.depth < min_depth => ~call.ret

C4_Witness ==
    /\ Asked
    /\ mode.tag = "Full"
    /\ call.depth = max_depth
    /\ min_depth + 1 < max_depth
    /\ AsU32(Interval) > 1
    /\ call.ret

\* C5 as claimed: beyond the ceiling the query always answers false.
C5_NotALeafBeyondCeiling ==
    (Asked /\ call.depth > Ceiling) => ~call.ret

\* C5 as amended: beyond the ceiling the query answers false in Perfect mode,
\* and in Full and FullRanged modes it answers what the weighted draw with
\* parameter `interval as u32` gives: true without a draw when that is <= 1,
\* otherwise true exactly when the value drawn is 0.
C5_BeyondCeiling ==
    (Asked /\ call.depth > Ceiling)
        => call.ret = (Ranged /\ (AsU32(Interval) <= 1 \/ call.sample = 0))

C5_Witness ==
    /\ Asked
    /\ mode.tag = "Full"
    /\ call.depth > Ceiling
    /\ AsU32(Interval) > 1
    /\ call.sample = 0
    /\ call.ret

\* the constructor half_and_half delegated to, on the arguments of the last call
C6_Delegated ==
    IF call.flip
    THEN perfect(call.min, call.max, call.raw, overflow_checks)
    ELSE full_ranged(call.min, call.max, call.raw, overflow_checks)

\* C6: half_and_half takes one word for the coin and then does what perfect
\* (coin true) or full_ranged (coin false) does with the same bounds on the
\* source left after the coin: the same TreeGen, never in Full mode, or the
\* same panic, and one word more than the delegated constructor consumes.
C6_HalfAndHalfDelegates ==
    call.op = "half_and_half"
        => /\ (status = "panicked") = C6_Delegated.panic
           /\ rng = call.rng_before + 1 + C6_Delegated.words
           /\ status = "live"
                => /\ Self = C6_Delegated.gen
                   /\ mode.tag = (IF call.flip THEN "Perfect" ELSE "FullRanged")
                   /\ min_depth = call.min
                   /\ max_depth = call.max
                   /\ rng = call.rng_before + 2

C6_Witness ==
    /\ call.op = "half_and_half"
    /\ status = "live"
    /\ ~call.flip
    /\ mode.tag = "FullRanged"
    /\ mode.chosen_depth > call.min
    /\ call.rng_before > 0

\* C7: FullRanged(d) with lower bound min_depth and Full with bounds
\* (min_depth, d), started on the same random source and asked the same
\* depths, give the same answers and leave the source in the same state.
C7_FullRangedIsFull ==
    (status = "live" /\ mode.tag = "FullRanged")
        => /\ twin_rng = rng
           /\ call.op = "is_leaf" => twin_ret = call.ret

C7_Witness ==
    /\ status = "live"
    /\ mode.tag = "FullRanged"
    /\ call.op = "is_leaf"
    /\ mode.chosen_depth < max_depth
    /\ call.depth # mode.chosen_depth
    /\ call.sample = 0
    /\ call.rng_before > 1
    /\ twin_ret

\* C8: every leaf the tree-builder places lies at chosen_depth in Perfect
\* mode, in [min_depth, max_depth] in Full mode and in [min_depth,
\* chosen_depth] in FullRanged mode, and the builder never stands on a node
\* beyond the ceiling.
C8_LeavesInRange ==
    (status = "live" /\ min_depth <= max_depth)
        => /\ build.active => build.depth <= Ceiling
           /\ build.leaf # NoLeaf
                => /\ build.leaf <= Ceiling
                   /\ build.leaf >= (IF mode.tag = "Perfect"
                                     THEN mode.chosen_depth ELSE min_depth)

C8_Witness ==
    /\ status = "live"
    /\ mode.tag = "Full"
    /\ build.root < min_depth
    /\ build.leaf > min_depth
    /\ build.leaf < max_depth
    /\ build.active
    /\ build.depth < build.leaf

\* C9: with an interval of 0 the weighted draw has parameter 0 and is true
\* without reading the random source: the query at min_depth, and at any
\* depth from min_depth on, answers true and the source is left as it was.
C9_ZeroInterval ==
    (Asked /\ Ranged /\ Interval = 0)
        => /\ call.depth >= min_depth => call.ret
           /\ rng = call.rng_before
           /\ call.sample = NoSample

C9_Witness ==
    /\ Asked
    /\ mode.tag = "FullRanged"
    /\ Interval = 0
    /\ min_depth < max_depth
    /\ call.depth > min_depth
    /\ call.ret

\* C10 as claimed: a query in Full or FullRanged mode draws at most once, and
\* only for a current_depth in [min_depth, ceiling).
C10_DrawsOnlyInsideRange ==
    (Asked /\ Ranged)
        => /\ Drawn <= 1
           /\ Drawn # 0 => (min_depth <= call.depth /\ call.depth < Ceiling)

\* C10 as amended: a query in Full or FullRanged mode draws at most once, and
\* only for a current_depth >= min_depth other than the ceiling (above the
\* ceiling too); below min_depth and at the ceiling the source is left as it
\* was.
C10_DrawsOnlyOffCeiling ==
    (Asked /\ Ranged)
        => /\ Drawn \in {0, 1}
           /\ Drawn # 0 => (min_depth <= call.depth /\ call.depth # Ceiling)
           /\ (call.depth < min_depth \/ call.depth = Ceiling) => Drawn = 0

C10_Witness ==
    /\ Asked
    /\ mode.tag = "FullRanged"
    /\ call.depth > Ceiling
    /\ Drawn = 1
    /\ ~call.ret

=============================================================================
